---- MODULE Spec2Model ----
(***************************************************************************)
(* Model of tools/package_extension.py: the host-pattern normaliser and    *)
(* the packaging run of main().                                            *)
(*                                                                         *)
(* A Python str is a sequence of code points (naturals), so that strip(),  *)
(* lower(), startswith(), endswith() and the ordering used by sorted() are *)
(* computed and not assumed.  File-system paths are sequences of path      *)
(* components.  The directory that tempfile makes lies outside the         *)
(* repository.  An I/O call may fail for a reason the file system does not *)
(* show (a full disk, a permission); such a failure is a choice of the     *)
(* environment.                                                            *)
(***************************************************************************)
EXTENDS Integers, Sequences, FiniteSets, TLC

VARIABLES
    \* ---- one run of main() ----
    pc,            \* position of the run inside main()
    args,          \* the argparse.Namespace returned by parse_args()
    fs,            \* the file system: path -> entry
    fs0,           \* history: the file system when the run started
    host_patterns, \* main(): local host_patterns
    manifest,      \* main(): local manifest (a dict), <<>> before it is loaded
    tmpdir,        \* the TemporaryDirectory of the with statement: <<>> or <<path>>
    stdout,        \* what print() has written, one element per call
    exit_status,   \* <<>> while main() runs, <<code>> once the process has exited
    io_fault,      \* history: the environment made an I/O call of this run fail
    \* ---- calls of normalize_host_patterns on their own ----
    n_hosts,       \* argument hosts of the next / last call
    n_allow,       \* argument allow_http
    n_out,         \* value returned by the last call
    n_prev,        \* value returned by the call before it
    n_phase,       \* "ready", "returned", "fed", "returned2"
    n_kind         \* how the second argument was derived from the first call

mainVars == <<pc, args, fs, fs0, host_patterns, manifest, tmpdir, stdout, exit_status,
              io_fault>>
normVars == <<n_hosts, n_allow, n_out, n_prev, n_phase, n_kind>>
vars == <<pc, args, fs, fs0, host_patterns, manifest, tmpdir, stdout, exit_status,
          io_fault, n_hosts, n_allow, n_out, n_prev, n_phase, n_kind>>

(***************************************************************************)
(* Bounds of the model.                                                    *)
(***************************************************************************)
\* longest hosts list handed to normalize_host_patterns on its own
MaxHosts == 2
\* longest --host list given on the command line of a run of main()
MaxArgHosts == 2

(***************************************************************************)
(* Python str operations, on sequences of code points.                     *)
(***************************************************************************)
\* str.isspace for one character (the ASCII white space and NEL, NBSP)
IsSpace(c) == c \in {9, 10, 11, 12, 13, 28, 29, 30, 31, 32, 133, 160}

\* str.lower (ASCII letters)
LowerChar(c) == IF c >= 65 /\ c <= 90 THEN c + 32 ELSE c
lower(s) == [i \in 1..Len(s) |-> LowerChar(s[i])]

\* str.strip(): drop leading and trailing white space
RECURSIVE lstrip(_)
lstrip(s) ==
    IF s # <<>> /\ IsSpace(Head(s)) THEN lstrip(Tail(s)) ELSE s
RECURSIVE rstrip(_)
rstrip(s) ==
    IF s # <<>> /\ IsSpace(s[Len(s)]) THEN rstrip(SubSeq(s, 1, Len(s) - 1)) ELSE s
strip(s) == rstrip(lstrip(s))

startswith(s, p) == Len(s) >= Len(p) /\ SubSeq(s, 1, Len(p)) = p
endswith(s, p) == Len(s) >= Len(p) /\ SubSeq(s, Len(s) - Len(p) + 1, Len(s)) = p

\* str.__lt__: lexicographic by code point, a proper prefix is smaller
RECURSIVE StrLess(_, _)
StrLess(a, b) ==
    IF b = <<>> THEN FALSE
    ELSE IF a = <<>> THEN TRUE
    ELSE IF Head(a) < Head(b) THEN TRUE
    ELSE IF Head(a) > Head(b) THEN FALSE
    ELSE StrLess(Tail(a), Tail(b))

\* sorted(patterns) for a set of str
RECURSIVE sorted(_)
sorted(S) ==
    IF S = {} THEN <<>>
    ELSE LET m == CHOOSE x \in S : \A y \in S : y = x \/ StrLess(x, y)
         IN  <<m>> \o sorted(S \ {m})

(***************************************************************************)
(* The pattern normaliser.                                                 *)
(***************************************************************************)
\* HOST_PATTERN_TEMPLATE.format(scheme=..., host=...): "{scheme}://{host}/*"
HOST_PATTERN_TEMPLATE(scheme, host) == scheme \o <<58, 47, 47>> \o host \o <<47, 42>>

\* the literals "https" and "http"
https == <<104, 116, 116, 112, 115>>
http == <<104, 116, 116, 112>>

\* a variant that appends "/*" whatever the pattern ends with
ensure_trailing_wildcard_appending(pattern) == pattern \o <<47, 42>>

ensure_trailing_wildcard(pattern) ==
    IF endswith(pattern, <<47, 42>>) THEN pattern
    ELSE IF endswith(pattern, <<47>>) THEN pattern \o <<42>>
    ELSE pattern \o <<47, 42>>

\* lower.startswith("http://") or lower.startswith("https://")
HasScheme(candidate) ==
    LET low == lower(candidate)
    IN  \/ startswith(low, http \o <<58, 47, 47>>)
        \/ startswith(low, https \o <<58, 47, 47>>)

\* a variant of the loop body that adds the http pattern whatever allow_http is
PatternsOfRaw_http_always(raw, allow_http) ==
    IF raw = <<>> THEN {}
    ELSE LET candidate == strip(raw)
         IN  IF candidate = <<>> THEN {}
             ELSE IF HasScheme(candidate) THEN {ensure_trailing_wildcard(candidate)}
             ELSE {HOST_PATTERN_TEMPLATE(https, candidate), HOST_PATTERN_TEMPLATE(http, candidate)}

\* the patterns one pass of the for loop adds to the set
PatternsOfRaw(raw, allow_http) ==
    IF raw = <<>> THEN {}
    ELSE LET candidate == strip(raw)
         IN  IF candidate = <<>> THEN {}
             ELSE IF HasScheme(candidate) THEN {ensure_trailing_wildcard(candidate)}
             ELSE {HOST_PATTERN_TEMPLATE(https, candidate)}
                  \cup (IF allow_http THEN {HOST_PATTERN_TEMPLATE(http, candidate)} ELSE {})

\* the for loop: the set patterns after the entries i..Len(hosts) are processed
RECURSIVE CollectPatterns(_, _, _, _)
CollectPatterns(hosts, allow_http, i, patterns) ==
    IF i > Len(hosts) THEN patterns
    ELSE CollectPatterns(hosts, allow_http, i + 1,
                         patterns \cup PatternsOfRaw(hosts[i], allow_http))

\* a variant that collects the patterns in a list, in the order of the hosts,
\* and returns it as it is
RECURSIVE ListPatterns(_, _, _)
ListPatterns(hosts, allow_http, i) ==
    IF i > Len(hosts) THEN <<>>
    ELSE sorted(PatternsOfRaw(hosts[i], allow_http)) \o ListPatterns(hosts, allow_http, i + 1)
normalize_host_patterns_listed(hosts, allow_http) == ListPatterns(hosts, allow_http, 1)

normalize_host_patterns(hosts, allow_http) ==
    sorted(CollectPatterns(hosts, allow_http, 1, {}))

(***************************************************************************)
(* Raw --host values the model draws from.                                 *)
(***************************************************************************)
\* "" (a bare host), "https://", "HTTP://"
Schemes ==
    { <<>>,
      <<104, 116, 116, 112, 115, 58, 47, 47>>,
      <<72, 84, 84, 80, 58, 47, 47>> }
\* "a", "B"
HostNames == { <<97>>, <<66>> }
\* "", "/", "/*"
Suffixes == { <<>>, <<47>>, <<47, 42>> }

\* scheme + host + suffix, and entries that are empty, only white space, only
\* a scheme, or wrapped in white space: "", " ", "http://", " a ", "\thttps://a/ "
RawHosts ==
    { s \o h \o x : s \in Schemes, h \in HostNames, x \in Suffixes }
    \cup { <<>>, <<32>>, <<104, 116, 116, 112, 58, 47, 47>>,
           <<32, 97, 32>>,
           <<9, 104, 116, 116, 112, 115, 58, 47, 47, 97, 47, 32>> }

SeqsUpTo(S, n) == UNION { [1..k -> S] : k \in 0..n }

(***************************************************************************)
(* Calls of normalize_host_patterns on their own: one call, then a second  *)
(* call whose hosts argument is derived from the first one (the list the   *)
(* first call returned, or a rearrangement of the first argument).         *)
(***************************************************************************)
\* host_patterns = normalize_host_patterns(hosts, allow_http)
NormCall ==
    /\ n_phase \in {"ready", "fed"}
    /\ n_out' = normalize_host_patterns(n_hosts, n_allow)
    /\ n_prev' = n_out
    /\ n_phase' = IF n_phase = "ready" THEN "returned" ELSE "returned2"
    /\ UNCHANGED <<n_hosts, n_allow, n_kind, mainVars>>

\* the caller hands the returned list back as the hosts argument
NormFeedback ==
    /\ n_phase = "returned"
    /\ n_hosts' = n_out
    /\ n_kind' = "feedback"
    /\ n_phase' = "fed"
    /\ UNCHANGED <<n_allow, n_out, n_prev, mainVars>>

\* the caller gives the same entries in another order
NormSwap ==
    /\ n_phase = "returned"
    /\ \E i, j \in 1..Len(n_hosts) :
          /\ i < j
          /\ n_hosts' = [n_hosts EXCEPT ![i] = n_hosts[j], ![j] = n_hosts[i]]
    /\ n_kind' = "rearranged"
    /\ n_phase' = "fed"
    /\ UNCHANGED <<n_allow, n_out, n_prev, mainVars>>

\* the caller repeats one of the entries
NormRepeat ==
    /\ n_phase = "returned"
    /\ Len(n_hosts) < MaxHosts + 1
    /\ \E i \in 1..Len(n_hosts), k \in 0..Len(n_hosts) :
          n_hosts' = SubSeq(n_hosts, 1, k) \o <<n_hosts[i]>>
                     \o SubSeq(n_hosts, k + 1, Len(n_hosts))
    /\ n_kind' = "rearranged"
    /\ n_phase' = "fed"
    /\ UNCHANGED <<n_allow, n_out, n_prev, mainVars>>

NormNext == NormCall \/ NormFeedback \/ NormSwap \/ NormRepeat

(***************************************************************************)
(* Paths and the file system.                                              *)
(*   entry of a directory: [kind |-> "dir"]                                *)
(*   entry of a file:      [kind |-> "file", fmt, doc, members]            *)
(*     fmt "json"          a JSON document as found in the source, doc     *)
(*     fmt "json-indent2"  json.dump(doc, indent=2) followed by "\n"       *)
(*     fmt "text"          text that is no JSON document                   *)
(*     fmt "bytes"         any other payload, named by doc.id              *)
(*     fmt "zip"           a zip archive holding members                   *)
(***************************************************************************)
REPO_ROOT == <<"repo">>
EXTENSION_DIR == REPO_ROOT \o <<"extension">>
DEFAULT_OUTPUT == REPO_ROOT \o <<"dist", "chromeos-graylog-agent.zip">>
\* the directory tempfile.TemporaryDirectory() makes
TMPDIR == <<"tmp", "tmpdir">>

None == "<None>"

IsPrefix(p, q) == Len(p) <= Len(q) /\ SubSeq(q, 1, Len(p)) = p
\* the paths of f at or below d
Under(f, d) == { p \in DOMAIN f : IsPrefix(d, p) }
\* PurePath.relative_to
relative_to(p, d) == SubSeq(p, Len(d) + 1, Len(p))
\* PurePath.as_posix of a relative path
RECURSIVE as_posix(_)
as_posix(rel) ==
    IF Len(rel) = 0 THEN "."
    ELSE IF Len(rel) = 1 THEN rel[1]
    ELSE rel[1] \o "/" \o as_posix(Tail(rel))
\* the proper ancestors of p
Parents(p) == { SubSeq(p, 1, k) : k \in 1..(Len(p) - 1) }

Dir == [kind |-> "dir"]
JsonFile(d) == [kind |-> "file", fmt |-> "json", doc |-> d, members |-> <<>>]
TextFile == [kind |-> "file", fmt |-> "text", doc |-> <<>>, members |-> <<>>]
BytesFile(id) == [kind |-> "file", fmt |-> "bytes", doc |-> [id |-> id], members |-> <<>>]
ZipFile(ms) == [kind |-> "file", fmt |-> "zip", doc |-> <<>>, members |-> ms]

IsDir(f, p) == p \in DOMAIN f /\ f[p].kind = "dir"
IsFile(f, p) == p \in DOMAIN f /\ f[p].kind = "file"

\* f with entry e at path p
PutEntry(f, p, e) == (p :> e) @@ f

\* shutil.copytree(src, dst): every entry at or below src, again below dst
copytree(f, src, dst) ==
    [q \in { dst \o relative_to(p, src) : p \in Under(f, src) }
        |-> f[src \o relative_to(q, dst)]] @@ f

\* shutil.rmtree(d)
rmtree(f, d) == [p \in DOMAIN f \ Under(f, d) |-> f[p]]

\* Path.mkdir(parents=True, exist_ok=True) on d: d and its missing ancestors
mkdir_parents(f, d) ==
    [p \in (Parents(d) \cup {d}) \ DOMAIN f |-> Dir] @@ f

(***************************************************************************)
(* The manifest: a dict is a function from its keys.                       *)
(***************************************************************************)
\* d[k] = v
dict_set(d, k, v) == [x \in DOMAIN d \cup {k} |-> IF x = k THEN v ELSE d[x]]
\* d.get(k, default)
dict_get(d, k, default) == IF k \in DOMAIN d THEN d[k] ELSE default

\* json.load of an open file: the document, whatever its layout was
json_load(entry) == entry.doc
\* json.dump(manifest, handle, indent=2); handle.write("\n")
json_dump_indent2(d) == [kind |-> "file", fmt |-> "json-indent2", doc |-> d, members |-> <<>>]

\* manifest_path = working_dir / "manifest.json"
working_dir_of(tmp) == tmp \o <<"extension">>
\* a variant that names the manifest of the extension directory itself
manifest_path_in_source(working_dir) == EXTENSION_DIR \o <<"manifest.json">>
manifest_path_of(working_dir) == working_dir \o <<"manifest.json">>

\* a variant that tests "args.version is not None"
apply_version_not_none(m, version) ==
    IF version # None THEN dict_set(m, "version", version) ELSE m

\* if args.version: manifest["version"] = args.version
apply_version(m, version) ==
    IF version # None /\ version # "" THEN dict_set(m, "version", version) ELSE m

\* a variant that assigns host_permissions whatever the list holds
apply_host_permissions_always(m, patterns) == dict_set(m, "host_permissions", patterns)

\* if host_patterns: manifest["host_permissions"] = host_patterns
apply_host_permissions(m, patterns) ==
    IF patterns # <<>> THEN dict_set(m, "host_permissions", patterns) ELSE m

\* the dict that json.dumps prints in dry-run mode
manifest_preview(m) ==
    [text |-> "json",
     version |-> dict_get(m, "version", None),
     host_permissions |-> dict_get(m, "host_permissions", <<>>)]

(***************************************************************************)
(* create_archive.                                                         *)
(***************************************************************************)
\* the file names of the model, in the order str.__lt__ gives them
NameOrder == <<"assets", "empty", "icon.png", "manifest.json">>
NameRank(n) == CHOOSE i \in 1..Len(NameOrder) : NameOrder[i] = n

\* PurePath.__lt__: by parts
RECURSIVE PathLess(_, _)
PathLess(a, b) ==
    IF b = <<>> THEN FALSE
    ELSE IF a = <<>> THEN TRUE
    ELSE IF Head(a) = Head(b) THEN PathLess(Tail(a), Tail(b))
    ELSE NameRank(Head(a)) < NameRank(Head(b))

\* sorted(source_dir.rglob("*")): the paths strictly below source_dir, sorted
RECURSIVE sorted_paths(_)
sorted_paths(S) ==
    IF S = {} THEN <<>>
    ELSE LET m == CHOOSE x \in S : \A y \in S : y = x \/ PathLess(x, y)
         IN  <<m>> \o sorted_paths(S \ {m})
rglob(f, source_dir) == { relative_to(p, source_dir) : p \in Under(f, source_dir) \ {source_dir} }

\* a variant that skips nothing
skipped_never(f, file_path) == FALSE

\* if file_path.is_dir(): continue
skipped(f, file_path) == IsDir(f, file_path)

\* the body of the for loop over the first n paths of the walk
RECURSIVE archive_members(_, _, _, _)
archive_members(f, source_dir, walk, n) ==
    IF n = 0 THEN <<>>
    ELSE LET file_path == source_dir \o walk[n]
             before == archive_members(f, source_dir, walk, n - 1)
         IN  IF skipped(f, file_path) THEN before
             ELSE Append(before, [name |-> as_posix(relative_to(file_path, source_dir)),
                                  data |-> f[file_path]])

\* the ancestors of output_path among which mkdir meets a non-directory
mkdir_blocked(f, output_path) ==
    \E p \in Parents(output_path) : p \in DOMAIN f /\ f[p].kind # "dir"

\* create_archive(source_dir, output_path) when nothing raises
create_archive(f, source_dir, output_path) ==
    LET walk == sorted_paths(rglob(f, source_dir))
    IN  PutEntry(mkdir_parents(f, SubSeq(output_path, 1, Len(output_path) - 1)),
                 output_path,
                 ZipFile(archive_members(f, source_dir, walk, Len(walk))))

(***************************************************************************)
(* The inputs of a run of main(): the command line and the file system.    *)
(***************************************************************************)
\* --host values of a run: " ", "a", "https://B/", ""
ArgHosts == { <<32>>, <<97>>, <<104, 116, 116, 112, 115, 58, 47, 47, 66, 47>>, <<>> }

\* --output values: the default, an existing archive, a new path and an
\* existing file below the extension directory, a path below a regular file,
\* and a directory
Outputs ==
    { DEFAULT_OUTPUT,
      REPO_ROOT \o <<"old.zip">>,
      EXTENSION_DIR \o <<"build", "pkg.zip">>,
      EXTENSION_DIR \o <<"assets", "icon.png">>,
      REPO_ROOT \o <<"old.zip", "pkg.zip">>,
      EXTENSION_DIR \o <<"assets">> }

\* --version values: not given, the empty string, a version
Versions == { None, "", "2.0" }

\* parse_args(): the Namespace
Namespaces ==
    [output : Outputs, hosts : SeqsUpTo(ArgHosts, MaxArgHosts), allow_http : BOOLEAN,
     version : Versions, dry_run : BOOLEAN]

\* what is on disk beside the extension
BaseFs ==
    (REPO_ROOT :> Dir) @@ (<<"tmp">> :> Dir) @@ (REPO_ROOT \o <<"old.zip">> :> ZipFile(<<>>))

\* an extension tree without its manifest
TreeFs ==
    (EXTENSION_DIR :> Dir)
    @@ (EXTENSION_DIR \o <<"assets">> :> Dir)
    @@ (EXTENSION_DIR \o <<"assets", "icon.png">> :> BytesFile("icon"))
    @@ (EXTENSION_DIR \o <<"empty">> :> Dir)

\* manifest.json files: without and with host_permissions, and one that does not parse
SourceManifests ==
    { JsonFile([version |-> "1.0", name |-> "agent"]),
      JsonFile([version |-> "1.0", name |-> "agent",
                host_permissions |-> << <<104, 116, 116, 112, 58, 47, 47, 111, 47, 42>> >>]),
      TextFile }

FileSystems ==
    { BaseFs,
      (EXTENSION_DIR :> BytesFile("stray")) @@ BaseFs,
      TreeFs @@ BaseFs }
    \cup { (manifest_path_of(EXTENSION_DIR) :> m) @@ TreeFs @@ BaseFs : m \in SourceManifests }

\* the state after parse_args() of a run of main()
Init ==
    /\ args \in Namespaces
    /\ fs \in FileSystems
    /\ fs0 = fs
    /\ pc = "validate"
    /\ host_patterns = <<>>
    /\ manifest = <<>>
    /\ tmpdir = <<>>
    /\ stdout = <<>>
    /\ exit_status = <<>>
    /\ io_fault = FALSE
    /\ n_hosts = <<>>
    /\ n_allow = FALSE
    /\ n_out = <<>>
    /\ n_prev = <<>>
    /\ n_phase = "off"
    /\ n_kind = "first"

\* the state before a first call of normalize_host_patterns on its own
InitNorm ==
    /\ n_hosts \in SeqsUpTo(RawHosts, MaxHosts)
    /\ n_allow \in BOOLEAN
    /\ n_out = <<>>
    /\ n_prev = <<>>
    /\ n_phase = "ready"
    /\ n_kind = "first"
    /\ args = [output |-> DEFAULT_OUTPUT, hosts |-> <<>>, allow_http |-> FALSE,
               version |-> None, dry_run |-> FALSE]
    /\ fs = BaseFs
    /\ fs0 = BaseFs
    /\ pc = "off"
    /\ host_patterns = <<>>
    /\ manifest = <<>>
    /\ tmpdir = <<>>
    /\ stdout = <<>>
    /\ exit_status = <<>>
    /\ io_fault = FALSE

(***************************************************************************)
(* main(), statement by statement.                                         *)
(***************************************************************************)
\* a variant that checks nothing
validate_environment_unchecked(f) == "ok"

\* validate_environment(): "raise" when the extension directory is missing
validate_environment(f) == IF EXTENSION_DIR \notin DOMAIN f THEN "raise" ELSE "ok"

\* line 123; SystemExit with a message makes the process exit with status 1
ValidateEnvironment ==
    /\ pc = "validate"
    /\ IF validate_environment(fs) = "raise"
       THEN /\ pc' = "exited"
            /\ exit_status' = <<1>>
       ELSE /\ pc' = "normalize"
            /\ UNCHANGED exit_status
    /\ UNCHANGED <<args, fs, fs0, host_patterns, manifest, tmpdir, stdout, io_fault, normVars>>

\* lines 125-128
NormalizeHosts ==
    /\ pc = "normalize"
    /\ stdout' = IF args.dry_run
                 THEN Append(stdout, [text |-> "Running in dry-run mode; no files will be written."])
                 ELSE stdout
    /\ host_patterns' = normalize_host_patterns(args.hosts, args.allow_http)
    /\ pc' = "mkdtemp"
    /\ UNCHANGED <<args, fs, fs0, manifest, tmpdir, exit_status, io_fault, normVars>>

\* line 130: with tempfile.TemporaryDirectory() as tmpdir
EnterTemporaryDirectory ==
    /\ pc = "mkdtemp"
    /\ \/ /\ fs' = PutEntry(fs, TMPDIR, Dir)
          /\ tmpdir' = <<TMPDIR>>
          /\ pc' = "copytree"
          /\ UNCHANGED <<exit_status, io_fault>>
       \/ \* mkdtemp raises: there is no directory and no with block
          /\ io_fault' = TRUE
          /\ pc' = "exited"
          /\ exit_status' = <<1>>
          /\ UNCHANGED <<fs, tmpdir>>
    /\ UNCHANGED <<args, fs0, host_patterns, manifest, stdout, normVars>>

\* lines 131-133: shutil.copytree(EXTENSION_DIR, working_dir)
CopyTree ==
    /\ pc = "copytree"
    /\ LET working_dir == working_dir_of(tmpdir[1])
       IN  \/ \* the source is no directory: copytree raises
              /\ ~IsDir(fs, EXTENSION_DIR)
              /\ pc' = "exit_raise"
              /\ UNCHANGED <<fs, io_fault>>
           \/ /\ IsDir(fs, EXTENSION_DIR)
              /\ fs' = copytree(fs, EXTENSION_DIR, working_dir)
              /\ pc' = "load"
              /\ UNCHANGED io_fault
           \/ \* an I/O error part of the way: only the root of the copy exists
              /\ IsDir(fs, EXTENSION_DIR)
              /\ fs' = PutEntry(fs, working_dir, Dir)
              /\ io_fault' = TRUE
              /\ pc' = "exit_raise"
    /\ UNCHANGED <<args, fs0, host_patterns, manifest, tmpdir, stdout, exit_status, normVars>>

\* lines 135-136: manifest = load_manifest(manifest_path)
LoadManifest ==
    /\ pc = "load"
    /\ LET manifest_path == manifest_path_of(working_dir_of(tmpdir[1]))
           loadable == IsFile(fs, manifest_path)
                       /\ fs[manifest_path].fmt \in {"json", "json-indent2"}
       IN  \/ \* no such file, or json.load raises JSONDecodeError
              /\ ~loadable
              /\ pc' = "exit_raise"
              /\ UNCHANGED <<manifest, io_fault>>
           \/ /\ loadable
              /\ manifest' = json_load(fs[manifest_path])
              /\ pc' = "edit"
              /\ UNCHANGED io_fault
           \/ \* the read fails
              /\ loadable
              /\ io_fault' = TRUE
              /\ pc' = "exit_raise"
              /\ UNCHANGED manifest
    /\ UNCHANGED <<args, fs, fs0, host_patterns, tmpdir, stdout, exit_status, normVars>>

\* a variant in which a dry run falls through to the writes
after_edit_fallthrough(dry_run) == "write"

\* where the run goes after the edits: if args.dry_run: ... return 0
after_edit(dry_run) == IF dry_run THEN "preview" ELSE "write"

\* lines 138-142
EditManifest ==
    /\ pc = "edit"
    /\ manifest' = apply_host_permissions(apply_version(manifest, args.version), host_patterns)
    /\ pc' = after_edit(args.dry_run)
    /\ UNCHANGED <<args, fs, fs0, host_patterns, tmpdir, stdout, exit_status, io_fault, normVars>>

\* lines 144-150: print the preview and return 0 from inside the with block
Preview ==
    /\ pc = "preview"
    /\ stdout' = stdout \o <<[text |-> "Manifest preview:"], manifest_preview(manifest)>>
    /\ pc' = "exit_return"
    /\ UNCHANGED <<args, fs, fs0, host_patterns, manifest, tmpdir, exit_status, io_fault, normVars>>

\* line 152: write_manifest(manifest_path, manifest)
WriteManifest ==
    /\ pc = "write"
    /\ LET manifest_path == manifest_path_of(working_dir_of(tmpdir[1]))
       IN  \/ /\ fs' = PutEntry(fs, manifest_path, json_dump_indent2(manifest))
              /\ pc' = "archive"
              /\ UNCHANGED io_fault
           \/ \* the write fails after open(path, "w") truncated the file
              /\ fs' = PutEntry(fs, manifest_path, TextFile)
              /\ io_fault' = TRUE
              /\ pc' = "exit_raise"
    /\ UNCHANGED <<args, fs0, host_patterns, manifest, tmpdir, stdout, exit_status, normVars>>

\* lines 153-154: create_archive(working_dir, args.output); print(...)
CreateArchive ==
    /\ pc = "archive"
    /\ LET working_dir == working_dir_of(tmpdir[1])
           parent == SubSeq(args.output, 1, Len(args.output) - 1)
       IN  \/ \* mkdir meets a regular file among the parents
              /\ mkdir_blocked(fs, args.output)
              /\ pc' = "exit_raise"
              /\ UNCHANGED <<fs, stdout, io_fault>>
           \/ \* the output path is a directory: ZipFile raises after mkdir
              /\ ~mkdir_blocked(fs, args.output)
              /\ IsDir(fs, args.output)
              /\ fs' = mkdir_parents(fs, parent)
              /\ pc' = "exit_raise"
              /\ UNCHANGED <<stdout, io_fault>>
           \/ /\ ~mkdir_blocked(fs, args.output)
              /\ ~IsDir(fs, args.output)
              /\ fs' = create_archive(fs, working_dir, args.output)
              /\ stdout' = Append(stdout, [text |-> "Created package: " \o as_posix(args.output)])
              /\ pc' = "exit_return"
              /\ UNCHANGED io_fault
           \/ \* a write fails: the archive was opened and holds nothing whole
              /\ ~mkdir_blocked(fs, args.output)
              /\ ~IsDir(fs, args.output)
              /\ fs' = PutEntry(mkdir_parents(fs, parent), args.output, ZipFile(<<>>))
              /\ io_fault' = TRUE
              /\ pc' = "exit_raise"
              /\ UNCHANGED stdout
    /\ UNCHANGED <<args, fs0, host_patterns, manifest, tmpdir, exit_status, normVars>>

\* a variant that removes the directory at the end of the block only
with_exit_on_return(f, d, raised) == IF raised THEN f ELSE rmtree(f, d)

\* TemporaryDirectory.__exit__: what is left of the file system
with_exit(f, d, raised) == rmtree(f, d)

\* leaving the with block, by return (lines 150, 156) or by an exception
ExitTemporaryDirectory ==
    /\ pc \in {"exit_return", "exit_raise"}
    /\ fs' = with_exit(fs, tmpdir[1], pc = "exit_raise")
    /\ exit_status' = IF pc = "exit_raise" THEN <<1>> ELSE <<0>>
    /\ pc' = "exited"
    /\ UNCHANGED <<args, fs0, host_patterns, manifest, tmpdir, stdout, io_fault, normVars>>

MainNext ==
    \/ ValidateEnvironment
    \/ NormalizeHosts
    \/ EnterTemporaryDirectory
    \/ CopyTree
    \/ LoadManifest
    \/ EditManifest
    \/ Preview
    \/ WriteManifest
    \/ CreateArchive
    \/ ExitTemporaryDirectory

\* one run of main()
Spec == Init /\ [][MainNext]_vars

\* calls of normalize_host_patterns
SpecNorm == InitNorm /\ [][NormNext]_vars

(***************************************************************************)
(* Vocabulary of the properties.                                           *)
(***************************************************************************)
Exited == pc = "exited"
Succeeded == pc = "exited" /\ exit_status = <<0>>

\* path p holds now what it held when the run started
SameAt(p) ==
    /\ p \in DOMAIN fs <=> p \in DOMAIN fs0
    /\ p \in DOMAIN fs => fs[p] = fs0[p]

\* nothing at or below the extension directory was created, changed or removed
SourceUntouched ==
    \A p \in Under(fs, EXTENSION_DIR) \cup Under(fs0, EXTENSION_DIR) : SameAt(p)

\* neither the --output path nor any of its parent directories was created or changed
OutputUntouched ==
    \A p \in Parents(args.output) \cup {args.output} : SameAt(p)

\* the run started with an extension directory holding a manifest that parses
ValidSource ==
    /\ IsDir(fs0, EXTENSION_DIR)
    /\ IsFile(fs0, EXTENSION_DIR \o <<"manifest.json">>)
    /\ fs0[EXTENSION_DIR \o <<"manifest.json">>].fmt = "json"

SourceManifest == fs0[EXTENSION_DIR \o <<"manifest.json">>].doc

\* every --host value is empty or white space only (or there is none)
AllBlank(hosts) == \A i \in 1..Len(hosts) : \A k \in 1..Len(hosts[i]) : IsSpace(hosts[i][k])

\* the document of the manifest.json member of the archive at --output
ArchivedManifest ==
    LET ms == fs[args.output].members
        i == CHOOSE k \in 1..Len(ms) : ms[k].name = "manifest.json"
    IN  ms[i].data.doc

\* the last thing the run printed
LastPrinted == stdout[Len(stdout)]

\* the version a finished run shows: in its preview, or in the archived manifest
FinalVersion == IF args.dry_run THEN LastPrinted.version ELSE ArchivedManifest.version

\* a bare host: not empty, no surrounding white space, no http(s):// prefix in any case
IsBareHost(h) ==
    /\ h # <<>>
    /\ ~IsSpace(h[1])
    /\ ~IsSpace(h[Len(h)])
    /\ \A pre \in { <<104, 116, 116, 112, 58, 47, 47>>,
                    <<104, 116, 116, 112, 115, 58, 47, 47>> } :
          ~(Len(h) >= Len(pre) /\ \A k \in 1..Len(pre) : LowerChar(h[k]) = pre[k])

(***************************************************************************)
(* C1: in a dry run nothing at or below the extension directory and        *)
(* nothing at the --output path or its parents is created or changed, at   *)
(* any point of the run; and a dry run over an extension directory with a  *)
(* loadable manifest, with no I/O call failing, ends with status 0 having  *)
(* printed the preview of the effective version and host_permissions last. *)
(***************************************************************************)
C1_DryRunTouchesNothing ==
    args.dry_run =>
        /\ SourceUntouched
        /\ OutputUntouched
        /\ (Exited /\ ValidSource /\ ~io_fault) =>
              /\ exit_status = <<0>>
              /\ LastPrinted =
                    [text |-> "json",
                     version |-> IF args.version \in {None, ""}
                                 THEN SourceManifest.version ELSE args.version,
                     host_permissions |->
                         IF AllBlank(args.hosts)
                         THEN (IF "host_permissions" \in DOMAIN SourceManifest
                               THEN SourceManifest.host_permissions ELSE <<>>)
                         ELSE host_patterns]

C1_Witness ==
    /\ args.dry_run
    /\ Succeeded
    /\ IsPrefix(EXTENSION_DIR, args.output)
    /\ args.version = "2.0"
    /\ host_patterns # <<>>
    /\ LastPrinted.version = "2.0"

(***************************************************************************)
(* C2: once the temporary directory was created, nothing of it is left     *)
(* when main() has been left, whether by the return after the archive, by  *)
(* the return of a dry run, or by an exception of the copy, the manifest   *)
(* load, the manifest write or the archive creation.                       *)
(***************************************************************************)
C2_TemporaryDirectoryRemoved ==
    (Exited /\ tmpdir # <<>>) => Under(fs, tmpdir[1]) = {}

C2_Witness ==
    /\ Exited
    /\ tmpdir # <<>>
    /\ exit_status = <<1>>
    /\ io_fault
    /\ manifest # <<>>
    /\ TMPDIR \notin DOMAIN fs

(***************************************************************************)
(* C3: when the extension directory does not exist, the run ends in        *)
(* validate_environment with a non-zero status: no temporary directory is  *)
(* ever created, the file system (the --output path and its parents        *)
(* included) stays as it was, and nothing is printed, dry run or not.      *)
(***************************************************************************)
C3_MissingSourceFailsFirst ==
    EXTENSION_DIR \notin DOMAIN fs0 =>
        /\ pc \in {"validate", "exited"}
        /\ tmpdir = <<>>
        /\ fs = fs0
        /\ stdout = <<>>
        /\ Exited => (exit_status # <<>> /\ exit_status[1] # 0)

C3_Witness ==
    /\ EXTENSION_DIR \notin DOMAIN fs0
    /\ Exited
    /\ exit_status = <<1>>
    /\ args.dry_run
    /\ args.output = DEFAULT_OUTPUT
    /\ DEFAULT_OUTPUT \notin DOMAIN fs

(***************************************************************************)
(* C4: after a successful run that is no dry run, the archived manifest    *)
(* has the host_permissions of the source manifest (absent when the source *)
(* has none) if every --host value is blank or none was given, and has     *)
(* exactly the normalised, non-empty list otherwise.                       *)
(***************************************************************************)
C4_HostPermissionsInArchive ==
    (Succeeded /\ ~args.dry_run) =>
        IF AllBlank(args.hosts)
        THEN /\ host_patterns = <<>>
             /\ "host_permissions" \in DOMAIN ArchivedManifest
                   <=> "host_permissions" \in DOMAIN SourceManifest
             /\ "host_permissions" \in DOMAIN SourceManifest =>
                   ArchivedManifest.host_permissions = SourceManifest.host_permissions
        ELSE /\ host_patterns # <<>>
             /\ "host_permissions" \in DOMAIN ArchivedManifest
             /\ ArchivedManifest.host_permissions = host_patterns

C4_Witness ==
    /\ Succeeded
    /\ ~args.dry_run
    /\ args.hosts # <<>>
    /\ AllBlank(args.hosts)
    /\ "host_permissions" \in DOMAIN SourceManifest
    /\ ArchivedManifest.host_permissions = SourceManifest.host_permissions

(***************************************************************************)
(* C5, as claimed: whenever --version was given, the empty string          *)
(* included, a successful run shows that string as the version, in the     *)
(* preview of a dry run and in the archived manifest otherwise; without    *)
(* --version it shows the version of the source manifest.                  *)
(***************************************************************************)
C5_AnyGivenVersionOverrides ==
    Succeeded =>
        FinalVersion = IF args.version # None THEN args.version ELSE SourceManifest.version

(***************************************************************************)
(* C5, amended: a successful run shows the --version string when one was   *)
(* given and is not empty, and the version of the source manifest when     *)
(* --version was not given or was given as the empty string.               *)
(***************************************************************************)
C5_NonEmptyVersionOverrides ==
    Succeeded =>
        FinalVersion = IF args.version # None /\ args.version # ""
                       THEN args.version ELSE SourceManifest.version

C5_Witness ==
    /\ Succeeded
    /\ ~args.dry_run
    /\ args.version = ""
    /\ SourceManifest.version = "1.0"
    /\ ArchivedManifest.version = "1.0"

(***************************************************************************)
(* C6: a list returned by normalize_host_patterns is strictly ascending in *)
(* the order of str (so sorted, and no pattern twice), and a second call   *)
(* on the same entries in another order, or with an entry repeated,        *)
(* returns the same list.                                                  *)
(***************************************************************************)
C6_SortedUniqueOrderIndependent ==
    /\ n_phase \in {"returned", "returned2"} =>
          \A i, j \in 1..Len(n_out) : i < j => StrLess(n_out[i], n_out[j])
    /\ (n_phase = "returned2" /\ n_kind = "rearranged") => n_out = n_prev

C6_Witness ==
    /\ n_phase = "returned2"
    /\ n_kind = "rearranged"
    /\ Len(n_out) >= 3
    /\ n_hosts[1] # n_hosts[2]
    /\ n_out = n_prev

(***************************************************************************)
(* C7: for a single bare host h the call returns exactly [https://h/*]     *)
(* when allow_http is false and exactly [http://h/*, https://h/*] when it  *)
(* is true.                                                                *)
(***************************************************************************)
C7_BareHost ==
    (n_phase = "returned" /\ Len(n_hosts) = 1 /\ IsBareHost(n_hosts[1])) =>
        LET h == n_hosts[1]
            secure == <<104, 116, 116, 112, 115, 58, 47, 47>> \o h \o <<47, 42>>
            insecure == <<104, 116, 116, 112, 58, 47, 47>> \o h \o <<47, 42>>
        IN  n_out = IF n_allow THEN <<insecure, secure>> ELSE <<secure>>

C7_Witness ==
    /\ n_phase = "returned"
    /\ Len(n_hosts) = 1
    /\ IsBareHost(n_hosts[1])
    /\ ~n_allow
    /\ Len(n_out) = 1

(***************************************************************************)
(* C8: a single full pattern (http:// or https:// first, in any case) that *)
(* ends in /* is returned unchanged, and calling normalize_host_patterns   *)
(* on a list it returned, with the same allow_http, returns that list.     *)
(***************************************************************************)
C8_Idempotent ==
    /\ (n_phase = "returned" /\ Len(n_hosts) = 1
          /\ HasScheme(n_hosts[1]) /\ endswith(n_hosts[1], <<47, 42>>)) =>
          n_out = <<n_hosts[1]>>
    /\ (n_phase = "returned2" /\ n_kind = "feedback") => n_out = n_prev

C8_Witness ==
    /\ n_phase = "returned2"
    /\ n_kind = "feedback"
    /\ n_allow
    /\ Len(n_out) >= 3
    /\ \E i \in 1..Len(n_out) : n_out[i][1] = 72
    /\ n_out = n_hosts

(***************************************************************************)
(* C9: after a successful run that is no dry run, the archive at --output  *)
(* holds one member for every regular file of the extension tree and no    *)
(* other member, named by the path below the tree joined with "/" (for the *)
(* trees here: manifest.json and assets/icon.png); every file but the      *)
(* manifest is stored as it is in the source, and manifest.json is the     *)
(* edited manifest, dumped before the archive was built.                   *)
(***************************************************************************)
C9_ArchiveContents ==
    (Succeeded /\ ~args.dry_run) =>
        LET ms == fs[args.output].members
            files == { p \in Under(fs0, EXTENSION_DIR) : fs0[p].kind = "file" }
        IN  /\ fs[args.output].fmt = "zip"
            /\ Len(ms) = Cardinality(files)
            /\ { ms[i].name : i \in 1..Len(ms) } = {"assets/icon.png", "manifest.json"}
            /\ \A p \in files :
                  \E i \in 1..Len(ms) :
                     /\ ms[i].name = as_posix(relative_to(p, EXTENSION_DIR))
                     /\ IF ms[i].name = "manifest.json"
                        THEN /\ ms[i].data.fmt = "json-indent2"
                             /\ ms[i].data.doc = manifest
                             /\ args.version \notin {None, ""} =>
                                   ms[i].data.doc.version = args.version
                             /\ host_patterns # <<>> =>
                                   ms[i].data.doc.host_permissions = host_patterns
                        ELSE ms[i].data = fs0[p]

C9_Witness ==
    /\ Succeeded
    /\ ~args.dry_run
    /\ args.version = "2.0"
    /\ host_patterns # <<>>
    /\ Len(fs[args.output].members) = 2
    /\ ArchivedManifest.version = "2.0"

(***************************************************************************)
(* C10, as claimed: in every run, for every --output path, nothing at or   *)
(* below the extension directory is created, changed or removed.           *)
(***************************************************************************)
C10_SourceNeverMutated == SourceUntouched

(***************************************************************************)
(* C10, amended: the manifest edits and the rewrite go to the scratch copy *)
(* only, and the one thing a run can create or change at or below the      *)
(* extension directory is the archive itself, with the parent directories  *)
(* it lacks, when a run that is no dry run is given an --output path below  *)
(* the extension directory.                                                *)
(***************************************************************************)
C10_SourceMutatedOnlyByOutput ==
    \A p \in Under(fs, EXTENSION_DIR) \cup Under(fs0, EXTENSION_DIR) :
        \/ SameAt(p)
        \/ /\ ~args.dry_run
           /\ pc \in {"exit_return", "exit_raise", "exited"}
           /\ \/ p = args.output /\ IsFile(fs, p) /\ fs[p].fmt = "zip"
              \/ p \in Parents(args.output) /\ p \notin DOMAIN fs0 /\ IsDir(fs, p)

C10_Witness ==
    /\ Succeeded
    /\ ~args.dry_run
    /\ args.version = "2.0"
    /\ host_patterns # <<>>
    /\ ~IsPrefix(EXTENSION_DIR, args.output)
    /\ IsFile(fs, args.output)
    /\ SourceUntouched

====
